---- MODULE Spec2Model ----
(***************************************************************************)
(* django-social-auth, social_auth/backends.py: SocialAuthBackend and its  *)
(* account-resolution protocol (authenticate, username, associate_auth,    *)
(* update_user_details) over the User and UserSocialAuth tables.           *)
(*                                                                         *)
(* Every database operation of authenticate is one atomic step of the      *)
(* calling worker; the local computation that follows it, up to the next   *)
(* database operation, belongs to the same step.  Spec is one worker, one  *)
(* call at a time; SpecConc interleaves the steps of several workers.      *)
(* SpecDetails is get_user_details of the concrete backends on its own:    *)
(* one call on one provider response.                                      *)
(***************************************************************************)
EXTENDS Integers, Sequences, FiniteSets, TLC

\* ------------------------------------------------------------- bounds
MaxCalls == 2

Procs == {"w1", "w2"}
SeqProcs == {"w1"}

\* ---------------------------------------------------------- constants
USERNAME == "username"

\* Column names of the User row that details may address.
UserAttrs == {"username", "email", "first_name", "last_name"}

\* name of SocialAuthBackend itself, and of two concrete subclasses
BaseName == ""

\* a subclass that sets its name and overrides neither get_user_details nor
\* get_user_id
AbstractNames == {"stub"}

BackendNames == {BaseName, "twitter", "facebook"} \cup AbstractNames

\* ------------------------------------------------------------- inputs
\* What get_user_details may return: a dict over a subset of the canonical
\* keys.  email is always present (create_user receives details.get('email')).
\* fullname is a key the User instance has no attribute for.
DetailsSet ==
    { [username |-> "bob", email |-> "b@x.org", first_name |-> f, fullname |-> f]
        : f \in {"", "Rob"} }
    \cup { [username |-> u, email |-> "b@x.org", first_name |-> "Bob", fullname |-> "Bob"]
        : u \in {"", "bob2"} }
    \cup { [email |-> "b@x.org", first_name |-> "Bob"] }

Uids == {"u1", "u2"}

\* The accounts that exist at the providers
Accounts == {<<"twitter", "u1">>, <<"twitter", "u2">>, <<"facebook", "u1">>}

\* kwargs of authenticate: the provider keys holding a truthy value (one
\* caller sets the key of the one backend it addresses)
KwargKeys == {{}, {"twitter"}, {"facebook"}} \cup { {b} : b \in AbstractNames }
Tokens == {"", "tok"}

\* A provider response, as far as the hooks read it: the unique id, the
\* fields the details are made of, and the OAuth access token ("" = absent:
\* the responses of account u2 carry none).
Responses ==
    { r \in [id : Uids, details : DetailsSet, access_token : Tokens] :
        r.access_token = "" <=> r.id = "u2" }

\* md5(urandom(10)).hexdigest()[:30]: some string, not under the caller's control
RandomNames == {"0cc1", "9e10"}

\* SOCIAL_AUTH_DEFAULT_USERNAME: unset, a string, or a callable returning one
DefaultUsernames ==
    { [kind |-> "unset", value |-> ""],
      [kind |-> "str", value |-> "guest"],
      [kind |-> "callable", value |-> "bob"] }

\* The receivers connected to pre_update, each by the value it returns
ReceiverLists == {<<>>, <<FALSE>>, <<TRUE>>, <<FALSE, TRUE>>}

\* the partial records over the keys of choices: a subset of the keys, each
\* with one of its values (a provider omits the fields it has no value for)
Partial(choices) ==
    UNION { { f \in [D -> UNION { choices[k] : k \in D }] : \A k \in D : f[k] \in choices[k] }
            : D \in SUBSET DOMAIN choices }

\* Twitter's users/show: screen_name and name are always there
TwitterResponses == [screen_name : {"jdoe"}, name : {"", "Jane Doe"}]

\* Orkut's people.get
OrkutResponses ==
    { [displayName |-> "Jane Doe", emails |-> <<[value |-> e]>>,
       name |-> [givenName |-> g, familyName |-> "Doe"]]
        : e \in {"", "j@x.org"}, g \in {"", "Jane"} }

\* Facebook's /me: name is always there
FacebookResponses ==
    { r \in Partial([name |-> {"Jane Doe"}, email |-> {"j@x.org"},
                     first_name |-> {"", "Jane"}, last_name |-> {"Doe"}])
        : "name" \in DOMAIN r }

\* the simple-registration fields of an OpenID response
SregResponses ==
    Partial([email |-> {"s@x.org"}, fullname |-> {"", "Jane Doe"}, nickname |-> {"jd"}])

\* the attribute-exchange values of an OpenID response, by source
AxData ==
    Partial(("http://schema.openid.net/contact/email" :> {"o@x.org"})
         @@ ("http://axschema.org/contact/email" :> {"a@x.org"})
         @@ ("http://axschema.org/namePerson" :> {"Madonna", "jane van doe"})
         @@ ("http://axschema.org/namePerson/first" :> {"jane"})
         @@ ("http://axschema.org/namePerson/last" :> {"mc doe"}))

AxResponses ==
    {[present |-> FALSE, data |-> <<>>]} \cup { [present |-> TRUE, data |-> d] : d \in AxData }

\* An OpenID success response, as far as get_user_details reads it
OpenIDResponses == [sreg : SregResponses, ax : AxResponses]

\* names of OpenIDBackend, GoogleBackend and YahooBackend
OpenIDNames == {"openid", "google", "yahoo"}

AllSettings ==
    [CREATE_USERS : BOOLEAN, FORCE_RANDOM_USERNAME : BOOLEAN,
     DEFAULT_USERNAME : DefaultUsernames, EXTRA_DATA : BOOLEAN]

\* The documented defaults: create users, no forced random name, no default
\* username, no extra data.
DefaultSettings ==
    [CREATE_USERS |-> TRUE, FORCE_RANDOM_USERNAME |-> FALSE,
     DEFAULT_USERNAME |-> [kind |-> "unset", value |-> ""], EXTRA_DATA |-> FALSE]

\* The configurations explored: the defaults with one option changed, and
\* the forced random name together with a configured default username.
Settings ==
    { s \in AllSettings :
        \/ Cardinality({ k \in DOMAIN s : s[k] # DefaultSettings[k] }) <= 1
        \/ /\ s.CREATE_USERS /\ ~s.EXTRA_DATA /\ s.FORCE_RANDOM_USERNAME
           /\ s.DEFAULT_USERNAME.kind = "str" }

VARIABLES
    users,      \* the User table: row i has primary key i
    socials,    \* the UserSocialAuth table: a set of rows
    settings,   \* django.conf.settings, fixed for the run
    receivers,  \* receivers connected to pre_update: what each returns
    calls,      \* authenticate calls started so far
    proc,       \* per worker: the frame of its authenticate call
    norm        \* a call of a concrete backend's get_user_details

vars == <<users, socials, settings, receivers, calls, proc, norm>>

\* ------------------------------------------------------------ helpers
NoUser == [id |-> 0, username |-> "", email |-> "", first_name |-> "", last_name |-> ""]

\* the in-memory User instance loaded from row i
UserObj(i) ==
    [id |-> i, username |-> users[i].username, email |-> users[i].email,
     first_name |-> users[i].first_name, last_name |-> users[i].last_name]

RowOf(u) ==
    [username |-> u.username, email |-> u.email,
     first_name |-> u.first_name, last_name |-> u.last_name]

UserIds == 1..Len(users)

Usernames == { users[i].username : i \in UserIds }

NoResult == [kind |-> "pending", id |-> 0, exc |-> ""]
ReturnNone == [kind |-> "none", id |-> 0, exc |-> ""]
ReturnUser(u) == [kind |-> "user", id |-> u.id, exc |-> ""]
Raise(e) == [kind |-> "raised", id |-> 0, exc |-> e]

NoKwargs == [keys |-> {}, has_response |-> FALSE, user |-> NoUser]
NoResponse == [id |-> "", details |-> [email |-> ""], access_token |-> ""]

Idle ==
    [pc |-> "idle", backend |-> BaseName, kwargs |-> NoKwargs,
     response |-> NoResponse, details |-> [email |-> ""], uid |-> "",
     user |-> NoUser, new_user |-> FALSE,
     username |-> "", name |-> "", idx |-> 2,
     result |-> NoResult,
     \* history of the call, for the properties
     linked0 |-> 0, candidate |-> "", loaded |-> NoUser, extracted |-> FALSE, allocated |-> FALSE,
     created_user |-> 0, created_social |-> FALSE, hooked |-> FALSE,
     changed |-> FALSE, sent |-> 0, saves |-> 0]

\* no call of get_user_details
NoCall == [pc |-> "idle", backend |-> "", response |-> <<>>, merged |-> <<>>, details |-> <<>>]


\* ---------------------------------------------- the per-provider hooks
\* the hooks of SocialAuthBackend left unimplemented, returning None
NotImplementedHook_ReturnsNone == ReturnNone

\* get_user_details and get_user_id of SocialAuthBackend itself:
\* raise NotImplementedError('Implement in subclass')
NotImplementedHook == Raise("NotImplementedError")

\* get_user_details(response): the subclass's dict of details
get_user_details(b, r) == r.details

\* OAuthBackend.get_user_id: response['id']
get_user_id(b, r) == r.id

\* extra_data(user, uid, response, details): the OAuth backends return
\* response.get('access_token', ''), the base class ''
extra_data(b, r) == IF b = BaseName THEN "" ELSE r.access_token

\* ------------------------------- get_user_details of the concrete backends
\* the keys of the "know internal struct" of get_user_details
CanonicalKeys == {"username", "email", "fullname", "first_name", "last_name"}

\* Python's None as a value of a dict: a value that is no string of a response
None == "<None>"

\* dict.get(key, default)
Get(d, k, default) == IF k \in DOMAIN d THEN d[k] ELSE default

\* x or y: x if it is truthy (neither None nor ''), else y
Or(x, y) == IF x # None /\ x # "" THEN x ELSE y

\* dict.update(pairs): the pairs are stored in order, a later one overwriting
RECURSIVE Update(_, _)
Update(d, pairs) ==
    IF pairs = <<>> THEN d
    ELSE LET k == pairs[1][1]
             v == pairs[1][2] IN
         Update([x \in DOMAIN d \cup {k} |-> IF x = k THEN v ELSE d[x]], Tail(pairs))

\* TwitterBackend.get_user_details
TwitterBackend_get_user_details(response) ==
    [username |-> response["screen_name"],
     email |-> "",
     fullname |-> response["name"],
     first_name |-> response["name"],
     last_name |-> ""]

\* OrkutBackend.get_user_details
OrkutBackend_get_user_details(response) ==
    [username |-> response["displayName"],
     email |-> response["emails"][1]["value"],
     fullname |-> response["displayName"],
     firstname |-> response["name"]["givenName"],
     lastname |-> response["name"]["familyName"]]

\* FacebookBackend.get_user_details
FacebookBackend_get_user_details(response) ==
    [username |-> response["name"],
     email |-> Get(response, "email", ""),
     fullname |-> response["name"],
     first_name |-> Get(response, "first_name", ""),
     last_name |-> Get(response, "last_name", "")]

\* conf.py: the attribute-exchange sources and their aliases, the legacy
\* schema first
OLD_AX_ATTRS ==
    << <<"http://schema.openid.net/contact/email", "old_email">>,
       <<"http://schema.openid.net/namePerson", "old_fullname">>,
       <<"http://schema.openid.net/namePerson/friendly", "old_nickname">> >>

AX_SCHEMA_ATTRS ==
    << <<"http://axschema.org/contact/email", "email">>,
       <<"http://axschema.org/namePerson", "fullname">>,
       <<"http://axschema.org/namePerson/first", "first_name">>,
       <<"http://axschema.org/namePerson/last", "last_name">>,
       <<"http://axschema.org/namePerson/friendly", "nickname">> >>

\* alias.replace('old_', '')
RECURSIVE StripOld(_)
StripOld(alias) ==
    IF Len(alias) < 4 THEN alias
    ELSE IF SubSeq(alias, 1, 4) = "old_" THEN StripOld(SubSeq(alias, 5, Len(alias)))
    ELSE SubSeq(alias, 1, 1) \o StripOld(Tail(alias))

\* the values dict get_user_details starts from
InitialValues ==
    [username |-> "", email |-> "", fullname |-> "", first_name |-> "", last_name |-> ""]

\* `if resp:` for sreg.SRegResponse.fromSuccessResponse(response): None when
\* the response carries no sreg field
HasSreg(response) == DOMAIN response.sreg # {}

\* `if resp:` for ax.FetchResponse.fromSuccessResponse(response): None unless
\* the response is an attribute-exchange fetch response
HasAx(response) == response.ax.present

\* ax.FetchResponse.getSingle(src): the value, None when there is none
getSingle(resp, src) == Get(resp, src, None)

\* values.update((name, resp.get(name) or values.get(name) or '') for name in
\* ('email', 'fullname', 'nickname'))
SregMerge(values, resp) ==
    LET names == <<"email", "fullname", "nickname">> IN
    Update(values,
           [i \in 1..Len(names) |->
               <<names[i],
                 Or(Or(Get(resp, names[i], None), Get(values, names[i], None)), "")>>])

\* values.update((alias.replace('old_', ''), resp.getSingle(src))
\* for src, alias in OLD_AX_ATTRS + AX_SCHEMA_ATTRS)
AxMerge(values, resp) ==
    LET attrs == OLD_AX_ATTRS \o AX_SCHEMA_ATTRS IN
    Update(values,
           [i \in 1..Len(attrs) |->
               <<StripOld(attrs[i][2]), getSingle(resp, attrs[i][1])>>])

\* the values after the two merges
Merged(response) ==
    LET v1 == IF HasSreg(response) THEN SregMerge(InitialValues, response.sreg)
              ELSE InitialValues IN
    IF HasAx(response) THEN AxMerge(v1, response.ax.data) ELSE v1

LowerCase == "abcdefghijklmnopqrstuvwxyz"
UpperCase == "ABCDEFGHIJKLMNOPQRSTUVWXYZ"

\* the place of character c in s, 0 if it has none
PosIn(c, s) ==
    IF \E i \in 1..Len(s) : SubSeq(s, i, i) = c
    THEN CHOOSE i \in 1..Len(s) : SubSeq(s, i, i) = c
    ELSE 0

ToUpper(c) == IF PosIn(c, LowerCase) # 0
              THEN SubSeq(UpperCase, PosIn(c, LowerCase), PosIn(c, LowerCase)) ELSE c
ToLower(c) == IF PosIn(c, UpperCase) # 0
              THEN SubSeq(LowerCase, PosIn(c, UpperCase), PosIn(c, UpperCase)) ELSE c
IsCased(c) == PosIn(c, LowerCase) # 0 \/ PosIn(c, UpperCase) # 0

\* str.title(): a cased character is upper case where it follows an uncased
\* one (or nothing), lower case elsewhere
RECURSIVE TitleFrom(_, _)
TitleFrom(s, prevCased) ==
    IF s = "" THEN ""
    ELSE LET c == SubSeq(s, 1, 1) IN
         (IF prevCased THEN ToLower(c) ELSE ToUpper(c)) \o TitleFrom(Tail(s), IsCased(c))

title(s) == TitleFrom(s, FALSE)

\* the places of the spaces of s
Spaces(s) == { i \in 1..Len(s) : SubSeq(s, i, i) = " " }

\* fullname.rsplit(' ', 1) splitting at the first space
rsplit_First(s) ==
    IF Spaces(s) = {} THEN <<s>>
    ELSE LET i == CHOOSE i \in Spaces(s) : \A j \in Spaces(s) : i <= j IN
         <<SubSeq(s, 1, i - 1), SubSeq(s, i + 1, Len(s))>>

\* fullname.rsplit(' ', 1): the parts around the last space, the string
\* alone when it has no space
rsplit(s) ==
    IF Spaces(s) = {} THEN <<s>>
    ELSE LET i == CHOOSE i \in Spaces(s) : \A j \in Spaces(s) : j <= i IN
         <<SubSeq(s, 1, i - 1), SubSeq(s, i + 1, Len(s))>>

\* lines 225-240 of OpenIDBackend.get_user_details: fullname, first_name,
\* last_name and username made of the merged values
NameSynthesis(values) ==
    LET fullname == Or(Get(values, "fullname", None), "")
        first_name == Or(Get(values, "first_name", None), "")
        last_name == Or(Get(values, "last_name", None), "")
        names ==
            IF fullname = "" /\ first_name # "" /\ last_name # ""
            THEN <<first_name \o " " \o last_name, first_name, last_name>>
            ELSE IF fullname # ""
            THEN IF Len(rsplit(fullname)) = 2
                 THEN <<fullname, rsplit(fullname)[1], rsplit(fullname)[2]>>
                 ELSE <<fullname, first_name, fullname>>
            ELSE <<fullname, first_name, last_name>> IN
    Update(values,
           << <<"fullname", names[1]>>, <<"first_name", names[2]>>,
              <<"last_name", names[3]>>,
              <<USERNAME, Or(Get(values, USERNAME, None),
                             title(names[2]) \o title(names[3]))>> >>)

\* OpenIDBackend.get_user_details
OpenIDBackend_get_user_details(response) == NameSynthesis(Merged(response))


\* ------------------------------------------------- SocialAuthBackend
\* Guard without its test for the response key
Guard_NoResponseTest(b, kw) == b # "" /\ b \in kw.keys

\* authenticate's first test: self.name and kwargs.get(self.name) and
\* 'response' in kwargs
Guard(b, kw) == b # "" /\ b \in kw.keys /\ kw.has_response

\* FindSocial with the uid passed for the provider
FindSocial_UidForProvider(b, uid) == { s \in socials : s.provider = uid /\ s.uid = uid }

\* UserSocialAuth.objects.get(provider=self.name, uid=uid): the matching rows
FindSocial(b, uid) == { s \in socials : s.provider = b /\ s.uid = uid }

\* CreateUsers with the setting ignored
CreateUsers_Always == TRUE

\* getattr(settings, 'SOCIAL_AUTH_CREATE_USERS', True)
CreateUsers == settings.CREATE_USERS

\* getattr(settings, 'SOCIAL_AUTH_FORCE_RANDOM_USERNAME', False)
ForceRandomUsername == settings.FORCE_RANDOM_USERNAME

\* ExistingUser giving way to an explicit user
ExistingUser_PreferExplicit(me, hit) ==
    IF me.kwargs.user.id # 0 THEN me.kwargs.user
    ELSE [id |-> (CHOOSE s \in hit : TRUE).user] @@ users[(CHOOSE s \in hit : TRUE).user]

\* else: user = social_user.user
ExistingUser(me, hit) == UserObj((CHOOSE s \in hit : TRUE).user)

\* username(): the candidate, before collisions are resolved.  A set, as
\* the random name is any of several.
Candidates(details) ==
    IF ForceRandomUsername THEN RandomNames
    ELSE IF USERNAME \in DOMAIN details THEN {details[USERNAME]}
    ELSE IF settings.DEFAULT_USERNAME.kind # "unset"
        THEN {settings.DEFAULT_USERNAME.value}
    ELSE RandomNames

\* NextName with the suffix one behind
NextName_OneBehind(username, idx) == username \o ToString(idx - 1)

\* name = username + str(idx)
NextName(username, idx) == username \o ToString(idx)

\* associate_auth calls self.extra_data only under
\* getattr(settings, 'SOCIAL_AUTH_EXTRA_DATA', False)
ExtraDataHookCalled == settings.EXTRA_DATA

\* AssociateExtraData with the setting ignored
AssociateExtraData_HookAlways(b, r) == extra_data(b, r)

\* associate_auth: '' unless SOCIAL_AUTH_EXTRA_DATA, else the hook's value
AssociateExtraData(b, r) ==
    IF ~settings.EXTRA_DATA THEN "" ELSE extra_data(b, r)

\* SocialRow with the uid stored as the provider
SocialRow_UidForProvider(me) ==
    [provider |-> me.uid, uid |-> me.uid, user |-> me.user.id,
     extra_data |-> me.response.access_token]

\* UserSocialAuth.objects.create(user=user, uid=uid, provider=self.name,
\* extra_data=extra_data): the row
SocialRow(me) ==
    [provider |-> me.backend, uid |-> me.uid, user |-> me.user.id,
     extra_data |-> AssociateExtraData(me.backend, me.response)]

\* FieldPass without the skip of the username of an existing account
FieldPass_NoUsernameSkip(user, details, new_user) ==
    [a \in DOMAIN user |->
        IF a \in DOMAIN details /\ a \in UserAttrs /\ details[a] # "" /\ details[a] # user[a]
        THEN details[a]
        ELSE user[a]]

\* FieldPass without the test that the incoming value is truthy
FieldPass_EraseEmpty(user, details, new_user) ==
    [a \in DOMAIN user |->
        IF /\ a \in DOMAIN details
           /\ a \in UserAttrs
           /\ ~(~new_user /\ a = USERNAME)
           /\ details[a] # user[a]
        THEN details[a]
        ELSE user[a]]

\* update_user_details, the loop over details.iteritems(): the instance
\* after it.  getattr(user, name, value) is value for a name the instance
\* lacks, so such a key changes nothing.
FieldPass(user, details, new_user) ==
    [a \in DOMAIN user |->
        IF /\ a \in DOMAIN details
           /\ a \in UserAttrs
           /\ ~(~new_user /\ a = USERNAME)
           /\ details[a] # ""
           /\ details[a] # user[a]
        THEN details[a]
        ELSE user[a]]

\* Signal.send: one (receiver, response) pair per connected receiver
SendPreUpdate == [i \in 1..Len(receivers) |-> <<i, receivers[i]>>]

\* filter(None, responses): the elements that are truthy.  The elements are
\* the pairs, and a pair is a non-empty tuple.
Updated(responses) == SelectSeq(responses, LAMBDA t : Len(t) > 0)

\* if changed or len(updated) > 0
ShouldSave(changed, updated) == changed \/ Len(updated) > 0

\* User.objects.get(username=name) finds a row
UsernameExists(name) == \E i \in UserIds : users[i].username = name

\* ------------------------------------------------------------ the tables
\* User.username is unique: a row other than `except` holds the name
UsernameTaken(name, except) ==
    \E i \in UserIds : i # except /\ users[i].username = name

\* UserSocialAuth: unique_together (provider, uid)
SocialTaken(b, uid) == \E s \in socials : s.provider = b /\ s.uid = uid

\* ------------------------------------------------------------- actions
\* history: the user the identity (b, uid) is linked to in the table, 0 if none
LinkedTo(b, uid) ==
    IF \E s \in socials : s.provider = b /\ s.uid = uid
    THEN (CHOOSE s \in socials : s.provider = b /\ s.uid = uid).user
    ELSE 0

\* the call ends: its frame is dropped, its history kept
Finish(me, res) ==
    [me EXCEPT !.pc = "done", !.result = res, !.response = NoResponse,
               !.name = "", !.idx = 2]

\* authenticate(**kwargs) is entered: the guard, then the two hooks
Call(p) ==
    /\ proc[p].pc = "idle"
    /\ calls < MaxCalls
    /\ calls' = calls + 1
    /\ \E b \in BackendNames, k \in KwargKeys, hr \in BOOLEAN :
          LET kw == [keys |-> k, has_response |-> hr, user |-> NoUser]
              me == [Idle EXCEPT !.backend = b, !.kwargs = kw] IN
          IF ~Guard(b, kw)
          THEN proc' = [proc EXCEPT ![p] = Finish(me, ReturnNone)]
          ELSE IF b \in AbstractNames
          THEN proc' = [proc EXCEPT ![p] = Finish(me, NotImplementedHook)]
          ELSE \E r \in Responses, u \in {NoUser} \cup { UserObj(i) : i \in UserIds } :
                 LET uid == get_user_id(b, r) IN
                 /\ <<b, uid>> \in Accounts
                 /\ proc' = [proc EXCEPT ![p] =
                        [me EXCEPT !.pc = "lookup", !.response = r,
                                   !.kwargs = [kw EXCEPT !.user = u],
                                   !.details = get_user_details(b, r),
                                   !.uid = uid, !.extracted = TRUE,
                                   !.linked0 = LinkedTo(b, uid)]]
    /\ UNCHANGED <<users, socials, settings, receivers, norm>>

\* UserSocialAuth.objects.select_related('user').get(...), and what follows
\* it up to the next query
Lookup(p) ==
    LET me == proc[p]
        hit == FindSocial(me.backend, me.uid) IN
    /\ me.pc = "lookup"
    /\ IF Cardinality(hit) > 1
       THEN proc' = [proc EXCEPT ![p] = Finish(me, Raise("MultipleObjectsReturned"))]
       ELSE IF hit # {}
       THEN proc' = [proc EXCEPT ![p] =
                [me EXCEPT !.pc = "update", !.user = ExistingUser(me, hit)]]
       ELSE IF me.kwargs.user # NoUser
       THEN proc' = [proc EXCEPT ![p] =
                [me EXCEPT !.pc = "associate", !.user = me.kwargs.user]]
       ELSE IF ~CreateUsers
       THEN proc' = [proc EXCEPT ![p] = Finish(me, ReturnNone)]
       ELSE \E c \in Candidates(me.details) :
            proc' = [proc EXCEPT ![p] =
                [me EXCEPT !.pc = "username", !.username = c, !.name = c,
                           !.idx = 2, !.allocated = TRUE, !.candidate = c]]
    /\ UNCHANGED <<users, socials, settings, receivers, calls, norm>>

\* username(): one turn of the while loop, User.objects.get(username=name)
UsernameStep(p) ==
    LET me == proc[p] IN
    /\ me.pc = "username"
    /\ IF UsernameExists(me.name)
       THEN proc' = [proc EXCEPT ![p] =
                [me EXCEPT !.name = NextName(me.username, me.idx),
                           !.idx = me.idx + 1]]
       ELSE proc' = [proc EXCEPT ![p] =
                [me EXCEPT !.username = me.name, !.pc = "create_user"]]
    /\ UNCHANGED <<users, socials, settings, receivers, calls, norm>>

\* User.objects.create_user(username=username, email=email)
CreateUser(p) ==
    LET me == proc[p] IN
    /\ me.pc = "create_user"
    /\ IF UsernameTaken(me.username, 0)
       THEN /\ proc' = [proc EXCEPT ![p] = Finish(me, Raise("IntegrityError"))]
            /\ users' = users
       ELSE LET row == [username |-> me.username, email |-> me.details["email"],
                        first_name |-> "", last_name |-> ""]
                id == Len(users) + 1 IN
            /\ users' = Append(users, row)
            /\ proc' = [proc EXCEPT ![p] =
                   [me EXCEPT !.pc = "associate", !.new_user = TRUE,
                              !.user = [id |-> id] @@ row,
                              !.created_user = id]]
    /\ UNCHANGED <<socials, settings, receivers, calls, norm>>

\* associate_auth(user, uid, response, details)
Associate(p) ==
    LET me == proc[p] IN
    /\ me.pc = "associate"
    /\ IF SocialTaken(me.backend, me.uid)
       THEN /\ proc' = [proc EXCEPT ![p] = Finish(me, Raise("IntegrityError"))]
            /\ socials' = socials
       ELSE /\ socials' = socials \cup {SocialRow(me)}
            /\ proc' = [proc EXCEPT ![p] =
                   [me EXCEPT !.pc = "update", !.created_social = TRUE,
                              !.hooked = ExtraDataHookCalled]]
    /\ UNCHANGED <<users, settings, receivers, calls, norm>>

\* update_user_details(user, response, details, new_user), then return user
UpdateUserDetails(p) ==
    LET me == proc[p]
        user == FieldPass(me.user, me.details, me.new_user)
        changed == user # me.user
        responses == SendPreUpdate
        save == ShouldSave(changed, Updated(responses))
        hist == [me EXCEPT !.loaded = me.user, !.user = user, !.changed = changed,
                           !.sent = Len(responses),
                           !.saves = IF save THEN 1 ELSE 0] IN
    /\ me.pc = "update"
    /\ IF save /\ UsernameTaken(user.username, user.id)
       THEN /\ proc' = [proc EXCEPT ![p] = Finish(hist, Raise("IntegrityError"))]
            /\ users' = users
       ELSE /\ users' = IF save THEN [users EXCEPT ![user.id] = RowOf(user)] ELSE users
            /\ proc' = [proc EXCEPT ![p] = Finish(hist, ReturnUser(user))]
    /\ UNCHANGED <<socials, settings, receivers, calls, norm>>

\* return user / return None / the exception: the caller has the outcome
\* and the frame of the call is gone
Return(p) ==
    /\ proc[p].pc = "done"
    /\ proc' = [proc EXCEPT ![p] = Idle]
    /\ UNCHANGED <<users, socials, settings, receivers, calls, norm>>

\* --------------------------------------------------------------- spec
\* an account that registered without any provider
Registered ==
    [username |-> "bob", email |-> "bob@x.org", first_name |-> "Bob", last_name |-> ""]

Init ==
    /\ users \in {<<>>, <<Registered>>}
    /\ socials = {}
    /\ settings \in Settings
    /\ receivers \in ReceiverLists
    /\ calls = 0
    /\ proc = [p \in Procs |-> Idle]
    /\ norm = NoCall

Step(p) ==
    \/ Call(p)
    \/ Lookup(p)
    \/ UsernameStep(p)
    \/ CreateUser(p)
    \/ Associate(p)
    \/ UpdateUserDetails(p)
    \/ Return(p)

\* one worker: calls never overlap
Next == \E p \in SeqProcs : Step(p)

Spec == Init /\ [][Next]_vars

\* several workers on the same tables, under the default settings
InitConc == Init /\ settings = DefaultSettings

NextConc == \E p \in Procs : Step(p)

SpecConc == InitConc /\ [][NextConc]_vars

\* ------------------------------------- get_user_details on its own
\* the calls of get_user_details: a concrete backend and a response of its
\* provider
NormCalls ==
    { [NoCall EXCEPT !.pc = "called", !.backend = c[1], !.response = c[2]]
        : c \in ({"twitter"} \X TwitterResponses) \cup ({"orkut"} \X OrkutResponses)
                \cup ({"facebook"} \X FacebookResponses)
                \cup (OpenIDNames \X OpenIDResponses) }

InitDetails ==
    /\ users = <<>>
    /\ socials = {}
    /\ settings = DefaultSettings
    /\ receivers = <<>>
    /\ calls = 0
    /\ proc = [p \in Procs |-> Idle]
    /\ norm \in NormCalls

TwitterGetUserDetails ==
    /\ norm.pc = "called" /\ norm.backend = "twitter"
    /\ norm' = [norm EXCEPT !.pc = "returned",
                            !.details = TwitterBackend_get_user_details(norm.response)]
    /\ UNCHANGED <<users, socials, settings, receivers, calls, proc>>

OrkutGetUserDetails ==
    /\ norm.pc = "called" /\ norm.backend = "orkut"
    /\ norm' = [norm EXCEPT !.pc = "returned",
                            !.details = OrkutBackend_get_user_details(norm.response)]
    /\ UNCHANGED <<users, socials, settings, receivers, calls, proc>>

FacebookGetUserDetails ==
    /\ norm.pc = "called" /\ norm.backend = "facebook"
    /\ norm' = [norm EXCEPT !.pc = "returned",
                            !.details = FacebookBackend_get_user_details(norm.response)]
    /\ UNCHANGED <<users, socials, settings, receivers, calls, proc>>

\* OpenIDBackend and its subclasses; merged is the history of the values
\* before the names are synthesized
OpenIDGetUserDetails ==
    /\ norm.pc = "called" /\ norm.backend \in OpenIDNames
    /\ norm' = [norm EXCEPT !.pc = "returned",
                            !.merged = Merged(norm.response),
                            !.details = OpenIDBackend_get_user_details(norm.response)]
    /\ UNCHANGED <<users, socials, settings, receivers, calls, proc>>

NextDetails ==
    \/ TwitterGetUserDetails
    \/ OrkutGetUserDetails
    \/ FacebookGetUserDetails
    \/ OpenIDGetUserDetails

SpecDetails == InitDetails /\ [][NextDetails]_vars

\* ------------------------------------------------------------ claims
Done(p) == proc[p].pc = "done"

\* a call that passed the guard: details and uid were extracted
Resolving(p) == proc[p].extracted

\* the call of p ran update_user_details
RanUpdate(p) == proc[p].loaded # NoUser

\* the users the call of p created
CreatedUsers(p) == IF proc[p].created_user = 0 THEN {} ELSE {proc[p].created_user}

\* the rows of the identity the call of p is about
Links(p) == { s \in socials : s.provider = proc[p].backend /\ s.uid = proc[p].uid }

\* the call of p changed neither table
NoEffect(p) ==
    /\ proc[p].created_user = 0
    /\ ~proc[p].created_social
    /\ proc[p].saves = 0

\* C1: two overlapping first-time calls for the same (provider, uid), with
\* no explicit user, leave exactly one user created by them and exactly one
\* identity row for the pair.
C1_ConcurrentFirstLoginOnce ==
    \A p, q \in Procs :
        ( /\ p # q
          /\ Done(p) /\ Done(q)
          /\ Resolving(p) /\ Resolving(q)
          /\ proc[p].backend = proc[q].backend
          /\ proc[p].uid = proc[q].uid
          /\ proc[p].kwargs.user = NoUser /\ proc[q].kwargs.user = NoUser
          /\ proc[p].linked0 = 0 /\ proc[q].linked0 = 0 )
        => /\ Cardinality(CreatedUsers(p) \cup CreatedUsers(q)) = 1
           /\ Cardinality(Links(p)) = 1

\* C2: a call for a (provider, uid) that was linked to user U when the call
\* began returns U, creates no user and no identity, and leaves the link as
\* it was, whatever the details, the settings and the explicit user.
C2_IdempotentLinking ==
    \A p \in Procs :
        (Done(p) /\ Resolving(p) /\ proc[p].linked0 # 0)
        => /\ proc[p].result = [kind |-> "user", id |-> proc[p].linked0, exc |-> ""]
           /\ proc[p].created_user = 0
           /\ ~proc[p].created_social
           /\ { s.user : s \in Links(p) } = {proc[p].linked0}
           /\ Cardinality(Links(p)) = 1

\* a linked identity was authenticated again, with a username in the details
\* that is not the account's
C2_Witness ==
    \E p \in Procs :
        /\ Done(p) /\ proc[p].linked0 # 0
        /\ proc[p].result.kind = "user"
        /\ USERNAME \in DOMAIN proc[p].details
        /\ proc[p].details[USERNAME] \notin {"", proc[p].user.username}

\* the bundle does not address the backend: no truthy entry under the
\* backend's name, or an empty name, or no response key
Declined(p) ==
    \/ proc[p].backend = ""
    \/ proc[p].backend \notin proc[p].kwargs.keys
    \/ ~proc[p].kwargs.has_response

\* C3: a call whose bundle does not address the backend has ended, returned
\* None without raising, extracted nothing, sent no signal and changed
\* neither table.
C3_DeclineReturnsNone ==
    \A p \in Procs :
        (proc[p].pc # "idle" /\ Declined(p))
        => /\ Done(p)
           /\ proc[p].result = ReturnNone
           /\ ~proc[p].extracted
           /\ ~proc[p].allocated
           /\ proc[p].sent = 0
           /\ NoEffect(p)

\* a named backend declined a bundle that has a response but not its key,
\* with an account and an identity in the tables
C3_Witness ==
    \E p \in Procs :
        /\ Done(p) /\ Declined(p)
        /\ proc[p].backend # "" /\ proc[p].kwargs.has_response
        /\ proc[p].kwargs.keys # {}
        /\ users # <<>> /\ socials # {}

\* C4: with user creation disabled, a call for an unlinked identity and no
\* explicit user ends at the lookup: it returns None, creates nothing,
\* allocates no username, sends no signal and saves no user.
C4_PolicyDenied ==
    \A p \in Procs :
        ( /\ Resolving(p) /\ proc[p].pc # "lookup"
          /\ proc[p].linked0 = 0
          /\ proc[p].kwargs.user = NoUser
          /\ ~settings.CREATE_USERS )
        => /\ Done(p)
           /\ proc[p].result = ReturnNone
           /\ ~proc[p].allocated
           /\ proc[p].sent = 0
           /\ NoEffect(p)
           /\ Links(p) = {}

C4_Witness ==
    \E p \in Procs :
        /\ Done(p) /\ Resolving(p)
        /\ proc[p].linked0 = 0 /\ proc[p].kwargs.user = NoUser
        /\ ~settings.CREATE_USERS
        /\ proc[p].result = ReturnNone

\* C5: a call for an identity linked to U, given an explicit user V other
\* than U, returns U, creates no identity, and leaves V's row as it was.
C5_ExistingLinkWins ==
    \A p \in Procs :
        ( /\ Done(p) /\ Resolving(p)
          /\ proc[p].linked0 # 0
          /\ proc[p].kwargs.user # NoUser
          /\ proc[p].kwargs.user.id # proc[p].linked0 )
        => /\ proc[p].result = [kind |-> "user", id |-> proc[p].linked0, exc |-> ""]
           /\ proc[p].user.id = proc[p].linked0
           /\ ~proc[p].created_social
           /\ \A s \in Links(p) : s.user # proc[p].kwargs.user.id
           /\ users[proc[p].kwargs.user.id] = RowOf(proc[p].kwargs.user)

\* such a call ended, and it saved U
C5_Witness ==
    \E p \in Procs :
        /\ Done(p) /\ Resolving(p)
        /\ proc[p].linked0 # 0
        /\ proc[p].kwargs.user # NoUser
        /\ proc[p].kwargs.user.id # proc[p].linked0
        /\ proc[p].saves = 1 /\ proc[p].changed

\* C6: a call for an unlinked identity, given an explicit user V, creates
\* the one identity row of the pair, pointing at V, creates no user, treats
\* V as not new and returns V, whatever SOCIAL_AUTH_CREATE_USERS is.
C6_ExplicitUserLinked ==
    \A p \in Procs :
        ( /\ Done(p) /\ Resolving(p)
          /\ proc[p].linked0 = 0
          /\ proc[p].kwargs.user # NoUser )
        => /\ proc[p].result = [kind |-> "user", id |-> proc[p].kwargs.user.id, exc |-> ""]
           /\ proc[p].created_social
           /\ proc[p].created_user = 0
           /\ ~proc[p].new_user
           /\ ~proc[p].allocated
           /\ Cardinality(Links(p)) = 1
           /\ \A s \in Links(p) : s.user = proc[p].kwargs.user.id

\* with user creation disabled, an account got its second identity
C6_Witness ==
    \E p \in Procs :
        /\ Done(p) /\ Resolving(p)
        /\ proc[p].linked0 = 0
        /\ proc[p].kwargs.user # NoUser
        /\ ~settings.CREATE_USERS
        /\ proc[p].result.kind = "user"
        /\ Cardinality({ s \in socials : s.user = proc[p].kwargs.user.id }) = 2

\* C7: a step changes the stored username of an account only if it is the
\* update of the call that created the account (new_user true).
C7_UsernameOfExistingKept ==
    [][ \A i \in 1..Len(users) :
          users'[i].username # users[i].username
          => \E p \in Procs :
                /\ proc[p].pc = "update"
                /\ proc'[p].pc = "done"
                /\ proc[p].new_user
                /\ proc[p].created_user = i ]_vars

\* an existing account was saved by a call whose details carry another,
\* non-empty username
C7_Witness ==
    \E p \in Procs :
        /\ Done(p) /\ RanUpdate(p)
        /\ ~proc[p].new_user
        /\ proc[p].saves = 1
        /\ proc[p].result.kind = "user"
        /\ USERNAME \in DOMAIN proc[p].details
        /\ proc[p].details[USERNAME] \notin {"", users[proc[p].user.id].username}

\* C8: update_user_details saves the user if and only if the field pass
\* changed an attribute or a receiver returned a true value.
C8_SaveIffChangedOrReported ==
    \A p \in Procs :
        (Done(p) /\ RanUpdate(p))
        => ( proc[p].saves = 1
             <=> (proc[p].changed \/ \E i \in DOMAIN receivers : receivers[i]) )

\* the name the allocator is to return for candidate c: c if unused, else c
\* followed by the smallest k >= 2 for which the name is unused
ExpectedName(c, taken) ==
    IF c \notin taken THEN c
    ELSE LET free == { k \in 2..(Cardinality(taken) + 2) : (c \o ToString(k)) \notin taken }
             k == CHOOSE k \in free : \A j \in free : k <= j IN
         c \o ToString(k)

\* C9: the allocator's loop ends within one test per stored username, and
\* the name it returns is the candidate if that is unused, else the
\* candidate followed by the smallest k >= 2 that makes an unused name; the
\* name is not a stored username.
C9_AllocatorCollisionFree ==
    \A p \in Procs :
        /\ proc[p].pc = "username" => proc[p].idx <= Len(users) + 2
        /\ proc[p].pc = "create_user"
           => /\ proc[p].username \notin Usernames
              /\ proc[p].username = ExpectedName(proc[p].candidate, Usernames)

\* with bob and bob2 stored, candidate bob got bob3
C9_Witness ==
    \E p \in Procs :
        /\ proc[p].pc = "create_user"
        /\ proc[p].candidate = "bob"
        /\ proc[p].username = "bob3"
        /\ {"bob", "bob2"} \subseteq Usernames

\* the candidates the priority of the claim allows
ClaimedCandidates(details) ==
    IF settings.FORCE_RANDOM_USERNAME THEN RandomNames
    ELSE IF USERNAME \in DOMAIN details /\ details[USERNAME] # ""
        THEN {details[USERNAME]}
    ELSE IF settings.DEFAULT_USERNAME.kind # "unset"
        THEN {settings.DEFAULT_USERNAME.value}
    ELSE RandomNames

\* C10: the candidate is random under the force-random flag, else the
\* non-empty username of the details, else the configured default username,
\* else random.
C10_CandidatePriority ==
    \A p \in Procs :
        proc[p].allocated => proc[p].candidate \in ClaimedCandidates(proc[p].details)

\* C11: a call that found the identity unlinked and went on to create does
\* not end in a failure raised by the insert of the user or of the identity:
\* a constraint conflict with a concurrent creation, on (provider, uid) or on
\* the username, is retried inside authenticate and the call returns a user.
C11_CreationRaceRecovered ==
    \A p \in Procs :
        ( /\ Done(p) /\ Resolving(p)
          /\ proc[p].linked0 = 0
          /\ (proc[p].kwargs.user # NoUser \/ settings.CREATE_USERS)
          /\ ~RanUpdate(p) )
        => proc[p].result.kind = "user"

\* get_user_details of a concrete backend has returned
Returned == norm.pc = "returned"

\* C12: what get_user_details of a concrete backend returns has the five
\* canonical keys, each holding a string, none holding None.
C12_CanonicalDetails ==
    Returned
    => /\ CanonicalKeys \subseteq DOMAIN norm.details
       /\ \A k \in CanonicalKeys \cap DOMAIN norm.details : norm.details[k] # None

\* an OpenID backend's get_user_details has returned
ReturnedOpenID == Returned /\ norm.backend \in OpenIDNames

\* the merged value under key k as a string: '' for None and for no value
MergedStr(k) ==
    IF k \in DOMAIN norm.merged /\ norm.merged[k] # None THEN norm.merged[k] ELSE ""

\* s in title case, character by character: upper case at the start and
\* after a character that is no letter, lower case after a letter
RECURSIVE TitleCasedFrom(_, _)
TitleCasedFrom(s, i) ==
    IF i > Len(s) THEN ""
    ELSE LET c == SubSeq(s, i, i)
             afterLetter == i > 1 /\ IsCased(SubSeq(s, i - 1, i - 1)) IN
         (IF afterLetter THEN ToLower(c) ELSE ToUpper(c)) \o TitleCasedFrom(s, i + 1)

\* C13: over the merged values, an empty fullname with both names becomes
\* first + " " + last; a non-empty fullname with a space gives first and last
\* as its parts around its last space; without a space last is the fullname
\* and first is kept; an empty username becomes the title-cased first name
\* followed by the title-cased last name, a non-empty one is kept.
C13_NameSynthesis ==
    ReturnedOpenID
    => LET d == norm.details
           fullname == MergedStr("fullname")
           first == MergedStr("first_name")
           last == MergedStr("last_name") IN
       /\ (fullname = "" /\ first # "" /\ last # "")
          => /\ d.fullname = first \o " " \o last
             /\ d.first_name = first /\ d.last_name = last
       /\ (fullname = "" /\ ~(first # "" /\ last # ""))
          => /\ d.fullname = ""
             /\ d.first_name = first /\ d.last_name = last
       /\ fullname # ""
          => /\ d.fullname = fullname
             /\ IF \E i \in 1..Len(fullname) : SubSeq(fullname, i, i) = " "
                THEN /\ d.first_name \o " " \o d.last_name = fullname
                     /\ \A i \in 1..Len(d.last_name) : SubSeq(d.last_name, i, i) # " "
                ELSE /\ d.last_name = fullname
                     /\ d.first_name = first
       /\ d.username =
             IF MergedStr(USERNAME) # "" THEN MergedStr(USERNAME)
             ELSE TitleCasedFrom(d.first_name, 1) \o TitleCasedFrom(d.last_name, 1)

\* a fullname of three words was split at its last space, and the parts
\* in title case made the username
C13_Witness ==
    /\ ReturnedOpenID
    /\ MergedStr("fullname") = "jane van doe"
    /\ norm.details.first_name = "jane van"
    /\ norm.details.last_name = "doe"
    /\ norm.details.username = "Jane VanDoe"

\* C14: at the end of a call that created an account, the stored username
\* of the account is the name the allocator returned (a random name under
\* the force-random flag), and no two accounts share a username.
C14_PersistedNameIsAllocated ==
    /\ \A i, j \in UserIds : users[i].username = users[j].username => i = j
    /\ \A p \in Procs :
          (Done(p) /\ proc[p].created_user # 0)
          => /\ users[proc[p].created_user].username = proc[p].username
             /\ settings.FORCE_RANDOM_USERNAME
                => users[proc[p].created_user].username \in RandomNames

\* the attribute-exchange sources whose alias, the legacy prefix dropped, is a
AxSources(a) ==
    LET attrs == OLD_AX_ATTRS \o AX_SCHEMA_ATTRS IN
    { attrs[i][1] : i \in { j \in 1..Len(attrs) : StripOld(attrs[j][2]) = a } }

\* the value of attribute a before attribute exchange is looked at: the
\* simple-registration value if there is a non-empty one, else the default ''
SregValue(a) ==
    IF a \in DOMAIN norm.response.sreg /\ norm.response.sreg[a] # ""
    THEN norm.response.sreg[a] ELSE ""

\* C15: in the merged values of an OpenID response each attribute holds a
\* value attribute exchange supplied for it, if there is one; if the
\* attribute-exchange response has none for it, or there is no such
\* response, it holds the simple-registration value or else the default.
C15_AxOverlay ==
    ReturnedOpenID
    => \A a \in {"email", "fullname", "first_name", "last_name", "nickname"} :
          LET ax == norm.response.ax
              supplied == { ax.data[src] : src \in AxSources(a) \cap DOMAIN ax.data } IN
          IF ax.present /\ supplied # {}
          THEN Get(norm.merged, a, "") \in supplied
          ELSE Get(norm.merged, a, "") = SregValue(a)

\* C16: the field pass changes an attribute other than the username only
\* where the incoming value is non-empty and differs from the stored one,
\* and then to the incoming value; an empty or absent incoming value leaves
\* the attribute as it was, as does a key the account has no attribute for.
C16_FieldPassFrame ==
    \A p \in Procs :
        (Done(p) /\ RanUpdate(p))
        => LET before == proc[p].loaded
               after == proc[p].user
               details == proc[p].details IN
           /\ DOMAIN after = DOMAIN before
           /\ after.id = before.id
           /\ \A a \in UserAttrs \ {USERNAME} :
                 LET incoming == IF a \in DOMAIN details THEN details[a] ELSE "" IN
                 /\ after[a] # before[a] => (incoming # "" /\ incoming # before[a])
                 /\ incoming # "" => after[a] = incoming
                 /\ incoming = "" => after[a] = before[a]

\* a stored first name met an empty incoming one and was kept, while the
\* e-mail address of the same account was replaced by the incoming one
C16_Witness ==
    \E p \in Procs :
        /\ Done(p) /\ RanUpdate(p)
        /\ proc[p].loaded.first_name = "Bob"
        /\ "first_name" \in DOMAIN proc[p].details
        /\ proc[p].details["first_name"] = ""
        /\ proc[p].user.first_name = "Bob"
        /\ proc[p].loaded.email = "bob@x.org"
        /\ proc[p].user.email = "b@x.org"
        /\ users[proc[p].user.id].email = "b@x.org"

\* C17: a call that resolved a user sent pre_update to every connected
\* receiver once, and saved the user exactly when the field pass changed an
\* attribute or a receiver returned a true value: one true value is enough
\* for the save, and receivers that return no true value cause none.
C17_ObserversOnceAndSaveOnTrue ==
    \A p \in Procs :
        (Done(p) /\ RanUpdate(p))
        => /\ proc[p].sent = Len(receivers)
           /\ (\E i \in DOMAIN receivers : receivers[i]) => proc[p].saves = 1
           /\ (~proc[p].changed /\ \A i \in DOMAIN receivers : ~receivers[i])
              => proc[p].saves = 0

\* C18: a step never removes or alters an identity row; a row it adds is
\* that of the associating call, for an identity that had none, and its
\* extra_data is the access_token of the call's response ('' if it has none)
\* if SOCIAL_AUTH_EXTRA_DATA is set and '' if not, the hook being called
\* only if it is set.
C18_ExtraDataFixedAtCreation ==
    [][ /\ socials \subseteq socials'
        /\ \A s \in socials' \ socials :
              /\ \A t \in socials : t.provider # s.provider \/ t.uid # s.uid
              /\ \E p \in Procs :
                    /\ proc[p].pc = "associate"
                    /\ proc'[p].created_social
                    /\ s.provider = proc[p].backend
                    /\ s.uid = proc[p].uid
                    /\ s.user = proc[p].user.id
                    /\ s.extra_data = IF settings.EXTRA_DATA
                                      THEN proc[p].response.access_token ELSE ""
                    /\ proc'[p].hooked = settings.EXTRA_DATA ]_vars

\* an identity created with its access token was authenticated again, by a
\* call that saved the user, and still holds the token
C18_Witness ==
    \E p \in Procs :
        /\ Done(p) /\ proc[p].linked0 # 0
        /\ proc[p].saves = 1
        /\ settings.EXTRA_DATA
        /\ Links(p) = {[provider |-> proc[p].backend, uid |-> proc[p].uid,
                        user |-> proc[p].linked0, extra_data |-> "tok"]}

\* C19: a call that addresses a named backend which inherits the hooks of
\* SocialAuthBackend has ended in a raised NotImplementedError, not in None,
\* with no uid extracted, no lookup made, no username allocated, no signal
\* sent and neither table changed.
C19_AbstractHooksRaise ==
    \A p \in Procs :
        ( /\ proc[p].pc # "idle"
          /\ proc[p].backend \in AbstractNames
          /\ ~Declined(p) )
        => /\ Done(p)
           /\ proc[p].result.kind = "raised"
           /\ proc[p].result.exc = "NotImplementedError"
           /\ ~proc[p].extracted
           /\ proc[p].uid = "" /\ proc[p].linked0 = 0
           /\ ~proc[p].allocated
           /\ proc[p].sent = 0
           /\ NoEffect(p)

\* such a call ended while an account and an identity were stored
C19_Witness ==
    \E p \in Procs :
        /\ Done(p)
        /\ proc[p].backend \in AbstractNames
        /\ ~Declined(p)
        /\ proc[p].result.kind = "raised"
        /\ users # <<>> /\ socials # {}

====
